---- MODULE Spec2Model ----
(***************************************************************************)
(* Model of src/tracker.py: the stream-discovery-and-sampling loop run(),  *)
(* the registry known_streams, the per-video history window, the two sinks *)
(* (flat log and relational store) and table provisioning.                 *)
(*                                                                         *)
(* Block structure of run().  Lines 446-482 of src/tracker.py are indented *)
(* with tabs, the rest of the function with spaces.  A tab width of 4 is   *)
(* the only one (1..8) at which the function is well formed; at that width *)
(* the while body is                                                       *)
(*     try/except (446-482); continue (483); lines 485-506.                *)
(* The `continue` of line 483 is a statement of the while body, not of the *)
(* except block (whose body is one level deeper), so it runs after every   *)
(* try statement and lines 485-506 are never reached from the loop.  Spec  *)
(* models run() with that structure.  AnalyticsSpec drives lines 485-506   *)
(* and collect_and_store directly, the way a unit test would, from a       *)
(* registry as a discovery leaves it.  LiveSpec is one process run of      *)
(* run() with weak fairness on the steps of the process.  FetchSpec applies *)
(* get_video_analytics to every answer of the API.  WindowSpec is          *)
(* AnalyticsSpec without a connection, with completed discovery scans      *)
(* between the passes over lines 485-506.                                  *)
(***************************************************************************)
EXTENDS Integers, Sequences, FiniteSets, TLC

(* ------------------------------ bounds -------------------------------- *)
MaxFeed     == 2   \* items of one activities page (the code asks for 10)
MaxTicks    == 3   \* tick bodies started, over all process runs
MaxRuns     == 2   \* process runs against the same database and log file
MaxCapacity == 2   \* largest configured MAX_HISTORY_POINTS
MaxPasses   == 3   \* passes over lines 485-506 in AnalyticsSpec

(* --------------------------- configuration ---------------------------- *)
CHANNEL_IDS       == <<"c1", "c2">>
POLL_INTERVAL_SEC == 60
STREAM_POLL_SEC   == 30

VideoIds     == {"A", "B"}
\* Display names (snippet.channelTitle) a channel carries; a name is stable
\* during one process run and may differ in the next.
ChannelTitles == [ c1 |-> { <<"A", "!">>, <<"b">> }, c2 |-> { <<"a">> } ]
VideoTitle   == "T"
\* snippet.liveBroadcastContent the API reports for a video it keeps
BroadcastStatus == [ A |-> "live", B |-> "upcoming" ]

Max(a, b) == IF a >= b THEN a ELSE b
Min(a, b) == IF a <= b THEN a ELSE b

\* max(1, POLL_INTERVAL_SEC // STREAM_POLL_SEC)
PollsPerScan == Max(1, POLL_INTERVAL_SEC \div STREAM_POLL_SEC)

\* dict[k] = v
Put(f, k, v) == [x \in (DOMAIN f) \cup {k} |-> IF x = k THEN v ELSE f[x]]
EmptyDict == [x \in {} |-> 0]

(* --------------------------- get_table_name --------------------------- *)
LowerChar(c) == CASE c = "A" -> "a" [] c = "B" -> "b" [] OTHER -> c
IsLowerAlnum(c) == c \in {"a", "b", "0", "1"}

\* re.sub(r"[^a-z0-9]", "_", channel_name.lower())
ReplaceUnsafe(s) ==
    [i \in 1..Len(s) |-> IF IsLowerAlnum(LowerChar(s[i])) THEN LowerChar(s[i]) ELSE "_"]

\* re.sub(r"_+", "_", safe)
RECURSIVE CollapseUnderscores(_)
CollapseUnderscores(s) ==
    IF Len(s) <= 1 THEN s
    ELSE IF s[1] = "_" /\ s[2] = "_" THEN CollapseUnderscores(Tail(s))
    ELSE <<s[1]>> \o CollapseUnderscores(Tail(s))

\* .strip("_")
RECURSIVE StripUnderscores(_)
StripUnderscores(s) ==
    IF s = <<>> THEN s
    ELSE IF s[1] = "_" THEN StripUnderscores(Tail(s))
    ELSE IF s[Len(s)] = "_" THEN StripUnderscores(SubSeq(s, 1, Len(s) - 1))
    ELSE s

get_table_name(channel_name) ==
    <<"stream_">> \o StripUnderscores(CollapseUnderscores(ReplaceUnsafe(channel_name)))

(* ------------------------- relational store --------------------------- *)
MasterTable == <<"channels">>

\* Mutant: ON CONFLICT overwrites the whole row.
UpsertChannel_Overwrite(rows, channel_id, channel_name, table, now) ==
    { r \in rows : r.channel_id # channel_id }
      \cup { [channel_id |-> channel_id, channel_name |-> channel_name,
               table_name |-> table, added_at |-> now] }

\* INSERT INTO channels ... ON CONFLICT (channel_id) DO UPDATE SET channel_name
UpsertChannel(rows, channel_id, channel_name, table, now) ==
    IF \E r \in rows : r.channel_id = channel_id
    THEN { IF r.channel_id = channel_id THEN [r EXCEPT !.channel_name = channel_name] ELSE r
           : r \in rows }
    ELSE rows \cup { [channel_id |-> channel_id, channel_name |-> channel_name,
                      table_name |-> table, added_at |-> now] }

\* CREATE TABLE IF NOT EXISTS / CREATE INDEX IF NOT EXISTS: the statement is
\* rejected (dup) only when the object exists and the IF NOT EXISTS is missing.
CreateIfNotExists(objects, name) == [dup |-> FALSE, objects |-> objects \cup {name}]

IndexName(table, column) == [table |-> table, column |-> column]

\* init_channel_table(conn, channel_id, channel_name).  db is the stored
\* state, failAt the statement (1..4) at which the store fails, 0 for none.
\* Every statement runs in autocommit mode, so the statements before the
\* failing one stay committed; conn.autocommit is reset to False only when
\* no statement raised.
init_channel_table(db, channel_id, channel_name, failAt, now) ==
    LET table == get_table_name(channel_name)
        done  == IF failAt = 0 THEN 4 ELSE failAt - 1
        t     == CreateIfNotExists(db.tables, table)
        i1    == CreateIfNotExists(db.indexes, IndexName(table, "video_id"))
        i2    == CreateIfNotExists(IF done >= 3 THEN i1.objects ELSE db.indexes,
                                   IndexName(table, "collected_at"))
        dup   == \/ done >= 2 /\ t.dup
                 \/ done >= 3 /\ i1.dup
                 \/ done >= 4 /\ i2.dup
    IN  [ channels   |-> IF done >= 1
                         THEN UpsertChannel(db.channels, channel_id, channel_name, table, now)
                         ELSE db.channels,
          tables     |-> IF done >= 2 THEN t.objects ELSE db.tables,
          indexes    |-> IF done >= 4 THEN i2.objects
                         ELSE IF done >= 3 THEN i1.objects ELSE db.indexes,
          table      |-> table,
          raised     |-> failAt # 0 \/ dup,
          conflict   |-> dup,
          autocommit |-> failAt # 0 \/ dup ]

(* ------------------------------ state --------------------------------- *)
VARIABLES
    pc,                    \* position of the process in run()
    running,               \* _running
    conn,                  \* "none" | "open" | "closed"
    autocommit,            \* conn.autocommit
    connTx,                \* transaction state of conn: "idle" | "failed"
    known_streams,         \* video_id -> stream dict
    channel_tables,        \* channel_id -> table name
    channel_poll_counter,
    discovered,            \* video_id -> stream dict, built by one scan
    chIdx,                 \* position of `for ch in CHANNEL_IDS`
    results,               \* find_live_videos: results
    feedLeft,              \* find_live_videos: items of resp still to visit
    itemIdx,               \* position of `for s in find_live_videos(ch)`
    MAX_HISTORY_POINTS,    \* read from the environment at import
    history,               \* video_id -> list of (ts, viewers, likes, comments)
    active_streams,        \* list(known_streams.values()), as video_ids
    streamIdx,             \* position of `for stream in active_streams`
    csvExists,             \* os.path.exists(CSV_OUTPUT_PATH)
    csvLines,              \* lines of the flat log
    dbChannels,            \* rows of table channels
    dbTables,              \* existing tables
    dbIndexes,             \* existing indexes
    dbRows,                \* rows of the per-channel tables, in insert order
    titles,                \* channel_id -> channelTitle the API reports
    clock,                 \* datetime.now() / NOW()
    runs,                  \* process runs started
    ticks,                 \* tick bodies started
    tk,                    \* what the current tick has done so far
    initCalls,             \* channel_id -> init_channel_table calls of this run,
                           \*   and how many of them raised
    passes,                \* passes over lines 485-506 started
    ps,                    \* what the current pass has done so far
    arrived,               \* video_id -> every successful sample, in order
    sampleLog,             \* per successful fetch: what collect_and_store did
    resp,                  \* get_video_analytics called by itself: the answer
                           \*   of videos().list(...).execute()
    fetched                \* get_video_analytics called by itself: its result

procVars   == << pc, running >>
connVars   == << conn, autocommit, connTx >>
loopVars   == << known_streams, channel_tables, channel_poll_counter >>
scanVars   == << discovered, chIdx, results, feedLeft, itemIdx >>
storeVars  == << dbChannels, dbTables, dbIndexes >>
sampleVars == << MAX_HISTORY_POINTS, history, active_streams, streamIdx, csvExists,
                 csvLines, dbRows, passes, ps, arrived, sampleLog >>
ghostVars  == << runs, ticks, tk, initCalls >>

envVars    == << titles, clock >>
fetchVars  == << resp, fetched >>

vars == << procVars, connVars, loopVars, scanVars, storeVars, sampleVars, ghostVars, envVars,
          fetchVars >>

\* get_video_analytics has not been called by itself.
NotCalled == [outcome |-> "none", items |-> <<>>]
NoResult  == [kind |-> "none", value |-> <<>>]

Db == [channels |-> dbChannels, tables |-> dbTables, indexes |-> dbIndexes]

Channels == { CHANNEL_IDS[i] : i \in 1..Len(CHANNEL_IDS) }

TickStart ==
    [ discovery |-> FALSE,    \* channel_poll_counter was 0
      raised    |-> FALSE,    \* an exception reached the except clause
      findRaised|-> FALSE,    \* find_live_videos raised
      slept     |-> 0,        \* time.sleep(STREAM_POLL_SEC) calls
      logged    |-> 0,        \* log.error calls of line 480
      returned  |-> {},       \* video_ids returned by find_live_videos
      newEvents |-> [v \in VideoIds |-> 0],  \* "New stream" events per video_id
      ended     |-> {},       \* "Stream ended" events
      initErr   |-> "none",   \* outcome of init_channel_table: none|store|conflict
      done      |-> FALSE,    \* the tick body has run to its end
      old       |-> {},       \* video_ids of known_streams when the scan began
      sinceScan |-> 0 ]       \* tick bodies of this run that ended without an
                              \*   exception since the last discovery tick began,
                              \*   that tick included, before this tick

PassStart ==
    [ collected |-> <<>>,     \* video_ids collect_and_store was called for
      fetchFail |-> {},       \* video_ids whose metrics call gave no sample
      defaults  |-> {} ]      \* video_ids given the zero defaults (491-494)

Init ==
    /\ pc = "start"
    /\ running = TRUE
    /\ conn = "none"
    /\ autocommit = FALSE
    /\ connTx = "idle"
    /\ known_streams = EmptyDict
    /\ channel_tables = EmptyDict
    /\ channel_poll_counter = 0
    /\ discovered = EmptyDict
    /\ chIdx = 1
    /\ results = <<>>
    /\ feedLeft = 0
    /\ itemIdx = 1
    /\ MAX_HISTORY_POINTS = MaxCapacity
    /\ history = EmptyDict
    /\ active_streams = <<>>
    /\ streamIdx = 1
    /\ csvExists = FALSE
    /\ csvLines = <<>>
    /\ dbChannels = {}
    /\ dbTables = {}
    /\ dbIndexes = {}
    /\ dbRows = <<>>
    /\ clock = 0
    /\ titles = [c \in Channels |-> CHOOSE n \in ChannelTitles[c] : TRUE]
    /\ runs = 1
    /\ ticks = 0
    /\ tk = TickStart
    /\ initCalls = [c \in Channels |-> [calls |-> 0, raised |-> 0]]
    /\ passes = 0
    /\ ps = PassStart
    /\ arrived = EmptyDict
    /\ sampleLog = <<>>
    /\ resp = NotCalled
    /\ fetched = NoResult

(* ------------------------- run(): start-up ---------------------------- *)
\* get_db_connection(): None when the URL is unset or the connect fails.
get_db_connection(outcome) == IF outcome = "connected" THEN "open" ELSE "none"

\* Lines 430-443.  init_db runs outside any try: when its CREATE TABLE raises,
\* the exception leaves run() and the process ends.
Start ==
    /\ pc = "start"
    /\ \E outcome \in {"unset", "refused", "connected"}, initOk \in BOOLEAN :
         /\ conn' = get_db_connection(outcome)
         /\ IF conn' = "open"
            THEN IF initOk
                 THEN /\ dbTables' = dbTables \cup {MasterTable}
                      /\ autocommit' = FALSE
                      /\ pc' = "head"
                 ELSE /\ dbTables' = dbTables
                      /\ autocommit' = TRUE
                      /\ pc' = "crashed_start"
            ELSE /\ initOk
                 /\ dbTables' = dbTables
                 /\ autocommit' = FALSE
                 /\ pc' = "head"
    /\ clock' = clock + 1
    /\ titles' \in [Channels -> UNION {ChannelTitles[c] : c \in Channels}]
    /\ \A c \in Channels : titles'[c] \in ChannelTitles[c]
    /\ UNCHANGED << running, connTx, loopVars, scanVars, dbChannels, dbIndexes,
                    sampleVars, ghostVars >>
    /\ UNCHANGED fetchVars

(* ------------------------- run(): the loop ---------------------------- *)
\* Line 445, _running true: the next tick body starts.
EnterTick ==
    /\ pc = "head"
    /\ running
    /\ ticks < MaxTicks
    /\ pc' = "try"
    /\ ticks' = ticks + 1
    /\ UNCHANGED tk
    /\ UNCHANGED << running, connVars, loopVars, scanVars, storeVars, sampleVars,
                    runs, initCalls, envVars >>
    /\ UNCHANGED fetchVars

\* Line 445, _running false: lines 508-510.
ExitLoop ==
    /\ pc = "head"
    /\ ~running
    /\ conn' = IF conn = "open" THEN "closed" ELSE conn
    /\ pc' = "stopped"
    /\ UNCHANGED << running, autocommit, connTx, loopVars, scanVars, storeVars,
                    sampleVars, ghostVars, envVars >>
    /\ UNCHANGED fetchVars

\* Mutant: the counter does not wrap.
NextCounter_NoWrap(c) == c + 1

\* Line 477.
NextCounter(c) == (c + 1) % PollsPerScan

\* Lines 447-448: a discovery tick begins.
BeginDiscovery ==
    /\ pc = "try"
    /\ channel_poll_counter = 0
    /\ discovered' = EmptyDict
    /\ chIdx' = 1
    /\ tk' = [tk EXCEPT !.discovery = TRUE, !.old = DOMAIN known_streams]
    /\ pc' = IF Len(CHANNEL_IDS) = 0 THEN "finish" ELSE "channel"
    /\ UNCHANGED << running, connVars, loopVars, results, feedLeft, itemIdx,
                    storeVars, sampleVars, runs, ticks, initCalls, envVars >>
    /\ UNCHANGED fetchVars

\* Lines 447, 477: no scan on this tick.
SkipDiscovery ==
    /\ pc = "try"
    /\ channel_poll_counter # 0
    /\ channel_poll_counter' = NextCounter(channel_poll_counter)
    /\ tk' = [tk EXCEPT !.done = TRUE]
    /\ pc' = "cont"
    /\ UNCHANGED << running, connVars, known_streams, channel_tables, scanVars,
                    storeVars, sampleVars, runs, ticks, initCalls, envVars >>
    /\ UNCHANGED fetchVars

(* --------------------------- find_live_videos ------------------------- *)
VidsOf(list) == { list[i].video_id : i \in 1..Len(list) }

\* Line 291: the call returns res to the loop of line 450.
FindReturns(res) ==
    /\ results' = res
    /\ feedLeft' = 0
    /\ itemIdx' = 1
    /\ pc' = "items"
    /\ tk' = [tk EXCEPT !.returned = @ \cup VidsOf(res)]

\* Lines 288-289 catch HttpError only: any other exception of execute()
\* (a transport error, a timeout) leaves find_live_videos and is caught by
\* line 479.
FindRaises ==
    /\ pc' = "except"
    /\ tk' = [tk EXCEPT !.raised = TRUE, !.findRaised = TRUE]
    /\ UNCHANGED << results, feedLeft, itemIdx >>

\* Lines 247-253: activities().list(channelId=ch, maxResults=10).execute()
FeedList ==
    /\ pc = "channel"
    /\ \E outcome \in {"ok", "HttpError", "other"}, n \in 0..MaxFeed :
         CASE outcome = "ok" /\ n > 0 ->
                /\ results' = <<>>
                /\ feedLeft' = n
                /\ itemIdx' = 1
                /\ pc' = "feed"
                /\ UNCHANGED tk
           [] outcome = "ok" /\ n = 0 -> FindReturns(<<>>)
           [] outcome = "HttpError" -> n = 0 /\ FindReturns(<<>>)
           [] OTHER -> n = 0 /\ FindRaises
    /\ UNCHANGED << running, connVars, loopVars, discovered, chIdx, storeVars,
                    sampleVars, runs, ticks, initCalls, envVars >>
    /\ UNCHANGED fetchVars

\* Lines 280-286.
StreamDict(video_id, channel_id, channel_name, status) ==
    [ video_id |-> video_id, channel_id |-> channel_id, channel_name |-> channel_name,
      video_title |-> VideoTitle, stream_status |-> status ]

\* Lines 255-286, one item of the feed.  skip: no upload videoId (261), no
\* video item (270) or liveBroadcastContent neither live nor upcoming (277).
Candidate ==
    /\ pc = "feed"
    /\ feedLeft > 0
    /\ \E outcome \in {"skip", "keep", "HttpError", "other"},
          vid \in VideoIds :
         LET s    == StreamDict(vid, CHANNEL_IDS[chIdx], titles[CHANNEL_IDS[chIdx]],
                                BroadcastStatus[vid])
             res  == IF outcome = "keep" THEN Append(results, s) ELSE results
             rest == feedLeft - 1
         IN  CASE outcome \in {"skip", "keep"} /\ rest > 0 ->
                    /\ results' = res
                    /\ feedLeft' = rest
                    /\ UNCHANGED << itemIdx, pc, tk >>
               [] outcome \in {"skip", "keep"} /\ rest = 0 -> FindReturns(res)
               [] outcome = "HttpError" -> FindReturns(results)
               [] OTHER -> FindRaises
    /\ UNCHANGED << running, connVars, loopVars, discovered, chIdx, storeVars,
                    sampleVars, runs, ticks, initCalls, envVars >>
    /\ UNCHANGED fetchVars

(* ----------------------- run(): discovery scan ------------------------ *)
\* Mutant: no table is provisioned.
NeedsTable_Never(connection, ch, tables) == FALSE

\* Mutant: the `conn` test is missing.
NeedsTable_NoConnCheck(connection, ch, tables) == ch \notin DOMAIN tables

\* Mutant: the `ch not in channel_tables` test is missing.
NeedsTable_Always(connection, ch, tables) == connection = "open"

\* Line 455: `if conn and ch not in channel_tables`
NeedsTable(connection, ch, tables) == connection = "open" /\ ch \notin DOMAIN tables

\* Mutant: every returned stream is announced as new.
IsNewStream_Always(known, vid) == TRUE

\* Line 460: `if vid not in known_streams`
IsNewStream(known, vid) == vid \notin DOMAIN known

\* Mutant: the scan result is keyed by channel.
RegistryKey_Channel(s) == s.channel_id

\* Lines 451-452: `vid = s["video_id"]; discovered[vid] = s`
RegistryKey(s) == s.video_id

\* Lines 451-471, one stream s returned for channel ch.
ProcessItem ==
    /\ pc = "items"
    /\ itemIdx <= Len(results)
    /\ LET s        == results[itemIdx]
           ch       == CHANNEL_IDS[chIdx]
           vid      == s.video_id
           needInit == NeedsTable(conn, ch, channel_tables)
       IN  /\ discovered' = Put(discovered, RegistryKey(s), s)
           /\ \E failAt \in 0..4 :
                LET r == init_channel_table(Db, ch, s.channel_name, failAt, clock)
                IN  IF needInit
                    THEN /\ dbChannels' = r.channels
                         /\ dbTables' = r.tables
                         /\ dbIndexes' = r.indexes
                         /\ autocommit' = r.autocommit
                         /\ initCalls' = [initCalls EXCEPT ![ch] =
                                             [calls  |-> @.calls + 1,
                                              raised |-> @.raised + (IF r.raised THEN 1 ELSE 0)]]
                         /\ IF r.raised
                            THEN /\ pc' = "except"
                                 /\ tk' = [tk EXCEPT !.raised = TRUE,
                                             !.initErr = IF r.conflict THEN "conflict" ELSE "store"]
                                 /\ UNCHANGED << channel_tables, itemIdx >>
                            ELSE /\ channel_tables' = Put(channel_tables, ch, r.table)
                                 /\ itemIdx' = itemIdx + 1
                                 /\ pc' = "items"
                                 /\ tk' = IF IsNewStream(known_streams, vid)
                                          THEN [tk EXCEPT !.newEvents[vid] = @ + 1]
                                          ELSE tk
                    ELSE /\ failAt = 0
                         /\ itemIdx' = itemIdx + 1
                         /\ pc' = "items"
                         /\ tk' = IF IsNewStream(known_streams, vid)
                                  THEN [tk EXCEPT !.newEvents[vid] = @ + 1]
                                  ELSE tk
                         /\ UNCHANGED << storeVars, autocommit, initCalls, channel_tables >>
    /\ UNCHANGED << running, conn, connTx, known_streams, channel_poll_counter, chIdx,
                    results, feedLeft, sampleVars, runs, ticks, envVars >>
    /\ UNCHANGED fetchVars

\* Line 449: the next channel, or the end of the scan.
NextChannel ==
    /\ pc = "items"
    /\ itemIdx > Len(results)
    /\ chIdx' = chIdx + 1
    /\ pc' = IF chIdx + 1 > Len(CHANNEL_IDS) THEN "finish" ELSE "channel"
    /\ UNCHANGED << running, connVars, loopVars, discovered, results, feedLeft, itemIdx,
                    storeVars, sampleVars, ghostVars, envVars >>
    /\ UNCHANGED fetchVars

\* Mutant: the scan result is merged into the registry.
ReplaceRegistry_Merge(known, found) == found @@ known

\* Line 475: known_streams = discovered
ReplaceRegistry(known, found) == found

\* Mutant: a stream is reported ended only when the scan returned something.
EndedEvents_Debounced(known, found) ==
    IF DOMAIN found = {} THEN {} ELSE (DOMAIN known) \ (DOMAIN found)

\* Lines 472-474: the video_ids logged as "Stream ended".
EndedEvents(known, found) == (DOMAIN known) \ (DOMAIN found)

\* Lines 472-477.
FinishDiscovery ==
    /\ pc = "finish"
    /\ tk' = [tk EXCEPT !.ended = EndedEvents(known_streams, discovered),
                        !.done = TRUE]
    /\ known_streams' = ReplaceRegistry(known_streams, discovered)
    /\ channel_poll_counter' = NextCounter(channel_poll_counter)
    /\ pc' = "cont"
    /\ UNCHANGED << running, connVars, channel_tables, scanVars, storeVars, sampleVars,
                    runs, ticks, initCalls, envVars >>
    /\ UNCHANGED fetchVars

\* Mutant: the except clause publishes what the scan had found so far.
HandleException_Publish ==
    /\ pc = "except"
    /\ tk' = [tk EXCEPT !.logged = @ + 1, !.slept = @ + 1]
    /\ pc' = "cont"
    /\ known_streams' = discovered
    /\ UNCHANGED << running, connVars, channel_tables, channel_poll_counter, scanVars,
                    storeVars, sampleVars, runs, ticks, initCalls, envVars >>
    /\ UNCHANGED fetchVars

\* Lines 479-482: log.error, then time.sleep(STREAM_POLL_SEC).
HandleException ==
    /\ pc = "except"
    /\ tk' = [tk EXCEPT !.logged = @ + 1, !.slept = @ + 1]
    /\ pc' = "cont"
    /\ UNCHANGED << running, connVars, loopVars, scanVars, storeVars, sampleVars,
                    runs, ticks, initCalls, envVars >>
    /\ UNCHANGED fetchVars

\* Mutant: the next tick body starts without the test of line 445.
Continue_SkipCondition ==
    /\ pc = "cont"
    /\ pc' = "try"
    /\ tk' = [TickStart EXCEPT !.sinceScan = IF tk.raised THEN 0
                                            ELSE IF tk.discovery THEN 1
                                            ELSE tk.sinceScan + 1]
    /\ UNCHANGED << running, connVars, loopVars, scanVars, storeVars, sampleVars,
                    runs, ticks, initCalls, envVars >>
    /\ UNCHANGED fetchVars

\* Line 483: the statement after the try statement; back to line 445.
Continue ==
    /\ pc = "cont"
    /\ pc' = "head"
    /\ tk' = [TickStart EXCEPT !.sinceScan = IF tk.raised THEN 0
                                            ELSE IF tk.discovery THEN 1
                                            ELSE tk.sinceScan + 1]
    /\ UNCHANGED << running, connVars, loopVars, scanVars, storeVars, sampleVars,
                    runs, ticks, initCalls, envVars >>
    /\ UNCHANGED fetchVars

(* ------------------------ signals and restarts ------------------------ *)
\* Mutant: the signal also abandons the tick in progress.
HandleSignal_Interrupt ==
    /\ pc \notin {"stopped", "crashed", "crashed_start"}
    /\ running
    /\ running' = FALSE
    /\ pc' = IF pc = "start" THEN pc ELSE "head"
    /\ UNCHANGED << connVars, loopVars, scanVars, storeVars, sampleVars,
                    ghostVars, envVars >>
    /\ UNCHANGED fetchVars

\* _handle_signal (392-395), delivered between any two steps of the process.
HandleSignal ==
    /\ pc \notin {"stopped", "crashed", "crashed_start"}
    /\ running
    /\ running' = FALSE
    /\ UNCHANGED << pc, connVars, loopVars, scanVars, storeVars, sampleVars,
                    ghostVars, envVars >>
    /\ UNCHANGED fetchVars

\* The process is started again: module state is rebuilt (lines 58, 390,
\* 438-440); the database and the log file are what the last run left.
Restart ==
    /\ pc \in {"stopped", "crashed", "crashed_start"}
    /\ runs < MaxRuns
    /\ runs' = runs + 1
    /\ pc' = "start"
    /\ running' = TRUE
    /\ conn' = "none"
    /\ autocommit' = FALSE
    /\ connTx' = "idle"
    /\ known_streams' = EmptyDict
    /\ channel_tables' = EmptyDict
    /\ channel_poll_counter' = 0
    /\ discovered' = EmptyDict
    /\ chIdx' = 1
    /\ results' = <<>>
    /\ feedLeft' = 0
    /\ itemIdx' = 1
    /\ history' = EmptyDict
    /\ active_streams' = <<>>
    /\ streamIdx' = 1
    /\ tk' = TickStart
    /\ initCalls' = [c \in Channels |-> [calls |-> 0, raised |-> 0]]
    /\ UNCHANGED << MAX_HISTORY_POINTS, csvExists, csvLines, dbRows, passes, ps, arrived,
                    sampleLog, storeVars, ticks, envVars >>
    /\ UNCHANGED fetchVars

Next ==
    \/ Start
    \/ EnterTick
    \/ ExitLoop
    \/ BeginDiscovery
    \/ SkipDiscovery
    \/ FeedList
    \/ Candidate
    \/ ProcessItem
    \/ NextChannel
    \/ FinishDiscovery
    \/ HandleException
    \/ Continue
    \/ HandleSignal
    \/ Restart

Spec == Init /\ [][Next]_vars

\* The steps run() takes by itself.  Every call it makes (the API, the
\* database, time.sleep) returns or raises, so a step that is possible is
\* taken; signals come from outside and may never come.
ProcessStep ==
    \/ Start
    \/ EnterTick
    \/ ExitLoop
    \/ BeginDiscovery
    \/ SkipDiscovery
    \/ FeedList
    \/ Candidate
    \/ ProcessItem
    \/ NextChannel
    \/ FinishDiscovery
    \/ HandleException
    \/ Continue

\* One process run, from start-up to the end of run(), with signals.
NextLive ==
    \/ ProcessStep
    \/ HandleSignal

LiveSpec == Init /\ [][NextLive]_vars /\ WF_vars(ProcessStep)

(* ------------------------ get_video_analytics ------------------------- *)
\* A count field of the API response: absent, or a string of digits
\* (possibly empty).
Absent     == [present |-> FALSE, digits |-> <<>>]
Digits(ds) == [present |-> TRUE, digits |-> ds]

RECURSIVE DecimalValue(_)
DecimalValue(ds) ==
    IF ds = <<>> THEN 0 ELSE 10 * DecimalValue(SubSeq(ds, 1, Len(ds) - 1)) + ds[Len(ds)]

\* Mutant: an absent count is not replaced by 0.
CountOf_AbsentNotZero(field) ==
    IF ~field.present THEN -1
    ELSE IF field.digits = <<>> THEN 0 ELSE DecimalValue(field.digits)

\* int(d.get(key, 0) or 0)
CountOf(field) ==
    IF ~field.present \/ field.digits = <<>> THEN 0 ELSE DecimalValue(field.digits)

\* Items the videos().list call may answer with (statistics, liveStreamingDetails).
Responses ==
    { [ concurrentViewers |-> Digits(<<1, 2, 0>>), likeCount |-> Digits(<<1, 0>>),
        commentCount |-> Digits(<<2>>), scheduledStartTime |-> "s", actualStartTime |-> "a" ],
      [ concurrentViewers |-> Absent, likeCount |-> Digits(<<>>),
        commentCount |-> Digits(<<0>>), scheduledStartTime |-> "s", actualStartTime |-> "None" ] }

\* Mutant: the returned dict carries the broadcast status of the response.
AnalyticsOf_WithStatus(item) ==
    [ concurrent_viewers |-> CountOf(item.concurrentViewers),
      like_count         |-> CountOf(item.likeCount),
      comment_count      |-> CountOf(item.commentCount),
      scheduled_start    |-> item.scheduledStartTime,
      actual_start       |-> item.actualStartTime,
      stream_status      |-> "none" ]

\* Mutant: the returned dict has no actual_start key.
AnalyticsOf_NoActualStart(item) ==
    [ concurrent_viewers |-> CountOf(item.concurrentViewers),
      like_count         |-> CountOf(item.likeCount),
      comment_count      |-> CountOf(item.commentCount),
      scheduled_start    |-> item.scheduledStartTime ]

\* Lines 304-313.
AnalyticsOf(item) ==
    [ concurrent_viewers |-> CountOf(item.concurrentViewers),
      like_count         |-> CountOf(item.likeCount),
      comment_count      |-> CountOf(item.commentCount),
      scheduled_start    |-> item.scheduledStartTime,
      actual_start       |-> item.actualStartTime ]

\* The values a count field of the response takes: absent, "", "0", "120",
\* "07".
FieldValues ==
    { Absent, Digits(<<>>), Digits(<<0>>), Digits(<<1, 2, 0>>), Digits(<<0, 7>>) }

ApiItems ==
    [ concurrentViewers : FieldValues, likeCount : FieldValues, commentCount : FieldValues,
      scheduledStartTime : {"s"}, actualStartTime : {"a", "None"} ]

\* What videos().list(...).execute() does (297-300): it raises HttpError, it
\* raises another exception, or it returns a response with no item or one.
ApiAnswers ==
    { [outcome |-> o, items |-> <<>>] : o \in {"HttpError", "other", "ok"} }
      \cup { [outcome |-> "ok", items |-> <<i>>] : i \in ApiItems }

\* get_video_analytics (294-316), as a function of the answer of the API.
get_video_analytics(answer) ==
    CASE answer.outcome = "HttpError" -> [kind |-> "None", value |-> <<>>]
      [] answer.outcome = "other"     -> [kind |-> "raised", value |-> <<>>]
      [] answer.items = <<>>          -> [kind |-> "None", value |-> <<>>]
      [] OTHER                        -> [kind |-> "dict", value |-> AnalyticsOf(answer.items[1])]

\* get_video_analytics called by itself on every answer of ApiAnswers.
FetchInit ==
    /\ pc = "fetch"
    /\ resp \in ApiAnswers
    /\ fetched = NoResult
    /\ running = TRUE
    /\ conn = "none"
    /\ autocommit = FALSE
    /\ connTx = "idle"
    /\ known_streams = EmptyDict
    /\ channel_tables = EmptyDict
    /\ channel_poll_counter = 0
    /\ discovered = EmptyDict
    /\ chIdx = 1
    /\ results = <<>>
    /\ feedLeft = 0
    /\ itemIdx = 1
    /\ MAX_HISTORY_POINTS = MaxCapacity
    /\ history = EmptyDict
    /\ active_streams = <<>>
    /\ streamIdx = 1
    /\ csvExists = FALSE
    /\ csvLines = <<>>
    /\ dbChannels = {}
    /\ dbTables = {}
    /\ dbIndexes = {}
    /\ dbRows = <<>>
    /\ clock = 0
    /\ titles = [c \in Channels |-> CHOOSE n \in ChannelTitles[c] : TRUE]
    /\ runs = 1
    /\ ticks = 0
    /\ tk = TickStart
    /\ initCalls = [c \in Channels |-> [calls |-> 0, raised |-> 0]]
    /\ passes = 0
    /\ ps = PassStart
    /\ arrived = EmptyDict
    /\ sampleLog = <<>>

GetVideoAnalytics ==
    /\ pc = "fetch"
    /\ fetched' = get_video_analytics(resp)
    /\ pc' = "fetched"
    /\ UNCHANGED << running, connVars, loopVars, scanVars, storeVars, sampleVars,
                    ghostVars, envVars, resp >>

FetchSpec == FetchInit /\ [][GetVideoAnalytics]_vars

(* ------------------------------ the sinks ----------------------------- *)
CSV_FIELDS ==
    << "collected_at", "channel_id", "channel_name", "video_id", "video_title",
       "concurrent_viewers", "like_count", "comment_count", "stream_status",
       "scheduled_start", "actual_start" >>

FieldSet == { CSV_FIELDS[i] : i \in 1..Len(CSV_FIELDS) }

\* dict.update
Update(d, upd) == upd @@ d

\* Line 235: {k: row.get(k) for k in CSV_FIELDS}
CsvRow(row) ==
    [ kind |-> "row",
      cols |-> [k \in FieldSet |-> IF k \in DOMAIN row THEN <<row[k]>> ELSE <<>>] ]

HeaderLine == [kind |-> "header", cols |-> CSV_FIELDS]

\* Mutant: the row is not written.
save_to_csv_NoRow(lines, exists, row) ==
    IF exists THEN lines ELSE Append(lines, HeaderLine)

\* save_to_csv (229-235): the header goes in front of the row when the file
\* did not exist.
save_to_csv(lines, exists, row) ==
    (IF exists THEN lines ELSE Append(lines, HeaderLine)) \o << CsvRow(row) >>

\* os.path.exists(CSV_OUTPUT_PATH) after a save_to_csv call that raised:
\* open(path, "a") of line 231 creates the file before anything is written.
FileAfterFailure(exists, outcome) == exists \/ outcome = "write_raises"

\* Mutant: nothing is evicted.
AppendWindow_NoEvict(window, sample, capacity) == Append(window, sample)

\* Mutant: the newest sample is evicted (pop() for pop(0)).
AppendWindow_EvictNewest(window, sample, capacity) ==
    LET w == Append(window, sample)
    IN  IF Len(w) > capacity THEN SubSeq(w, 1, Len(w) - 1) ELSE w

\* The window update of lines 410-417.
AppendWindow(window, sample, capacity) ==
    LET w == Append(window, sample)
    IN  IF Len(w) > capacity THEN Tail(w) ELSE w

\* save_to_db (147-160) on a connection in state tx.  The INSERT raises when
\* the store fails, when the table does not exist (table None included), when
\* a key of the row is missing, or when an earlier statement of the still open
\* transaction failed; nothing rolls a failed transaction back.
InsertRaises(tx, auto, tables, row, table, storeFails) ==
    \/ storeFails
    \/ table \notin tables
    \/ ~(FieldSet \subseteq DOMAIN row)
    \/ (~auto /\ tx = "failed")

(* ---------------- lines 485-506, entered directly --------------------- *)
\* The display name each channel carries while lines 485-506 are driven.
AnalyticsTitles == [c \in Channels |-> CHOOSE n \in ChannelTitles[c] : TRUE]

\* The registries a scan can leave: at most one stream dict per video_id.
Registries ==
    { r \in SUBSET { StreamDict(v, c, AnalyticsTitles[c], st) :
                       v \in VideoIds, c \in Channels, st \in {"live", "upcoming"} } :
        \A x \in r, y \in r : x.video_id = y.video_id => x = y }

\* The order of list(known_streams.values()): the order of insertion; the
\* video_ids are listed in one order, the one in which the scan met them.
RECURSIVE OrderOf(_)
OrderOf(S) ==
    IF S = {} THEN <<>>
    ELSE LET v == CHOOSE x \in S : TRUE IN <<v>> \o OrderOf(S \ {v})

\* A registry as a completed scan leaves it: with a connection, the table of
\* every channel in it has been provisioned (455-458).
InitAnalytics ==
    /\ pc = "analytics"
    /\ running = TRUE
    /\ conn \in {"none", "open"}
    /\ autocommit \in (IF conn = "open" THEN BOOLEAN ELSE {FALSE})
    /\ connTx = "idle"
    /\ \E r \in Registries :
         /\ known_streams = [v \in {x.video_id : x \in r} |-> CHOOSE x \in r : x.video_id = v]
         /\ active_streams = OrderOf({x.video_id : x \in r})
         /\ titles = AnalyticsTitles
         /\ channel_tables =
              IF conn = "open"
              THEN [c \in {x.channel_id : x \in r} |-> get_table_name(titles[c])]
              ELSE EmptyDict
    /\ channel_poll_counter = 1
    /\ discovered = known_streams
    /\ chIdx = Len(CHANNEL_IDS) + 1
    /\ results = <<>>
    /\ feedLeft = 0
    /\ itemIdx = 1
    /\ MAX_HISTORY_POINTS \in 1..MaxCapacity
    /\ history = EmptyDict
    /\ streamIdx = 1
    /\ csvExists = FALSE
    /\ csvLines = <<>>
    /\ dbChannels = { [channel_id |-> c, channel_name |-> titles[c],
                       table_name |-> channel_tables[c], added_at |-> 1]
                      : c \in DOMAIN channel_tables }
    /\ dbTables = (IF conn = "open" THEN {MasterTable} ELSE {})
                    \cup { channel_tables[c] : c \in DOMAIN channel_tables }
    /\ dbIndexes = { IndexName(channel_tables[c], col) :
                       c \in DOMAIN channel_tables, col \in {"video_id", "collected_at"} }
    /\ dbRows = <<>>
    /\ clock = 1
    /\ runs = 1
    /\ ticks = 1
    /\ tk = TickStart
    /\ initCalls = [c \in Channels |->
                      [calls |-> IF c \in DOMAIN channel_tables THEN 1 ELSE 0, raised |-> 0]]
    /\ passes = 0
    /\ ps = PassStart
    /\ arrived = EmptyDict
    /\ sampleLog = <<>>
    /\ resp = NotCalled
    /\ fetched = NoResult

\* Line 485.
BeginPass ==
    /\ pc = "analytics"
    /\ passes < MaxPasses
    /\ passes' = passes + 1
    /\ ps' = PassStart
    /\ streamIdx' = 1
    /\ pc' = "stream"
    /\ UNCHANGED << running, connVars, loopVars, scanVars, storeVars, MAX_HISTORY_POINTS,
                    history, active_streams, csvExists, csvLines, dbRows, arrived,
                    sampleLog, ghostVars, envVars >>
    /\ UNCHANGED fetchVars

\* Mutant: save_to_db is called without the try statement.
InsertErrorCaught_No == FALSE

\* Lines 421-424: `except Exception` around save_to_db.
InsertErrorCaught == TRUE

\* Mutant: the notifier is called before the sinks are written.
SeenByNotifier_BeforeWrites(before, after) == before

\* Lines 419-428: regenerate_dashboard and deploy_dashboard are the last two
\* statements, so they find a sink as the writes of lines 419-424 left it
\* (after), not as it was when collect_and_store was entered (before).
SeenByNotifier(before, after) == after

\* Mutant: every stream of the registry is sampled.
IsLive_Always(stream) == TRUE

\* Line 487: `if stream["stream_status"] == "live"`
IsLive(stream) == stream.stream_status = "live"

\* Mutant: the window is kept per channel.
WindowKey_Channel(stream) == stream.channel_id

\* Lines 410 and 416: the key of history is the stream's video_id.
WindowKey(stream) == stream.video_id

\* Mutant: likes and viewers change places in the tuple.
SampleTuple_Swapped(stream, analytics) ==
    << stream.collected_at, analytics.like_count, analytics.concurrent_viewers,
       analytics.comment_count >>

\* Lines 410-415: the tuple appended to history[video_id].
SampleTuple(stream, analytics) ==
    << stream.collected_at, analytics.concurrent_viewers, analytics.like_count,
       analytics.comment_count >>

\* What collect_and_store did with one fetched sample.  csv: "written" or
\* "raised"; insert: "none" (no connection), "failed" or "committed";
\* attempts: calls of save_to_db; notifiedCsv, notifiedDb: 0 when the
\* downstream notifier (427-428) was not called, else the number of flat-log
\* lines and one plus the number of table rows it found written.
LogEntry(video_id, collected_at, pass, csv, insert, attempts, notifiedCsv, notifiedDb) ==
    [ video_id |-> video_id, collected_at |-> collected_at, pass |-> pass, csv |-> csv,
      insert |-> insert, attempts |-> attempts, notifiedCsv |-> notifiedCsv,
      notifiedDb |-> notifiedDb ]

\* channel_tables.get(channel_id)
TableFor(tables, channel_id) ==
    IF channel_id \in DOMAIN tables THEN tables[channel_id] ELSE <<"None">>

\* Lines 487-489 with collect_and_store (401-428), for one live stream.
\* fetch: the outcome of get_video_analytics; csv: the outcome of save_to_csv
\* ("written", "open_raises": open() raised and the file is as it was,
\* "write_raises": open() created or opened the file and the buffered header
\* and row were lost when the write behind close() raised); storeFails: the
\* outcome of the INSERT.  regenerate_dashboard and
\* deploy_dashboard catch the failures of their subprocesses.  An exception
\* that collect_and_store does not catch leaves run(): lines 485-506 are
\* outside the try statement.
CollectAndStore ==
    /\ pc = "stream"
    /\ streamIdx <= Len(active_streams)
    /\ IsLive(known_streams[active_streams[streamIdx]])
    /\ LET video_id == active_streams[streamIdx]
           stream   == known_streams[video_id]
           table    == TableFor(channel_tables, stream.channel_id)
       IN  \E fetch \in {"HttpError", "empty", "other", "item"}, item \in Responses,
              csv \in {"written", "open_raises", "write_raises"},
              storeFails \in BOOLEAN :
             /\ ps' = [ps EXCEPT !.collected = Append(@, video_id),
                                 !.fetchFail = IF fetch = "item" THEN @ ELSE @ \cup {video_id}]
             /\ CASE fetch \in {"HttpError", "empty"} ->
                       \* lines 314-316 and 302-303: None, line 405 returns
                       /\ item = CHOOSE i \in Responses : TRUE
                       /\ csv = "written" /\ ~storeFails
                       /\ streamIdx' = streamIdx + 1
                       /\ UNCHANGED << pc, known_streams, history, arrived, clock, csvExists,
                                       csvLines, dbRows, connTx, sampleLog >>
                  [] fetch = "other" ->
                       \* not an HttpError: raised out of collect_and_store
                       /\ item = CHOOSE i \in Responses : TRUE
                       /\ csv = "written" /\ ~storeFails
                       /\ pc' = "crashed"
                       /\ UNCHANGED << streamIdx, known_streams, history, arrived, clock,
                                       csvExists, csvLines, dbRows, connTx, sampleLog >>
                  [] OTHER ->
                       LET analytics == AnalyticsOf(item)
                           updated   == Update(Update(stream, analytics),
                                               [collected_at |-> clock])
                           sample    == SampleTuple(updated, analytics)
                           window    == IF WindowKey(updated) \in DOMAIN history
                                        THEN history[WindowKey(updated)] ELSE <<>>
                           before    == IF video_id \in DOMAIN arrived
                                        THEN arrived[video_id] ELSE <<>>
                           raises    == InsertRaises(connTx, autocommit, dbTables, updated,
                                                     table, storeFails)
                       IN  /\ known_streams' = [known_streams EXCEPT ![video_id] = updated]
                           /\ clock' = clock + 1
                           /\ history' = Put(history, WindowKey(updated),
                                             AppendWindow(window, sample, MAX_HISTORY_POINTS))
                           /\ arrived' = Put(arrived, video_id, Append(before, sample))
                           /\ IF csv # "written"
                              THEN \* save_to_csv raised: out of collect_and_store
                                   /\ ~storeFails
                                   /\ pc' = "crashed"
                                   /\ csvExists' = FileAfterFailure(csvExists, csv)
                                   /\ sampleLog' = Append(sampleLog,
                                        LogEntry(video_id, updated.collected_at, passes,
                                                 "raised", "none", 0, 0, 0))
                                   /\ UNCHANGED << streamIdx, csvLines, dbRows, connTx >>
                              ELSE /\ csvLines' = save_to_csv(csvLines, csvExists, updated)
                                   /\ csvExists' = TRUE
                                   /\ IF conn = "open"
                                      THEN IF raises
                                           THEN /\ connTx' = IF autocommit THEN connTx ELSE "failed"
                                                /\ UNCHANGED dbRows
                                           ELSE /\ connTx' = "idle"
                                                /\ dbRows' = Append(dbRows,
                                                     [table |-> table, cols |-> CsvRow(updated).cols])
                                      ELSE /\ ~storeFails
                                           /\ UNCHANGED << dbRows, connTx >>
                                   /\ IF conn = "open" /\ raises /\ ~InsertErrorCaught
                                      THEN \* the INSERT error leaves collect_and_store
                                           /\ pc' = "crashed"
                                           /\ UNCHANGED streamIdx
                                           /\ sampleLog' = Append(sampleLog,
                                                LogEntry(video_id, updated.collected_at, passes,
                                                         "written", "failed", 1, 0, 0))
                                      ELSE /\ sampleLog' = Append(sampleLog,
                                                LogEntry(video_id, updated.collected_at, passes,
                                                         "written",
                                                         IF conn # "open" THEN "none"
                                                         ELSE IF raises THEN "failed" ELSE "committed",
                                                         IF conn = "open" THEN 1 ELSE 0,
                                                         SeenByNotifier(Len(csvLines), Len(csvLines')),
                                                         SeenByNotifier(Len(dbRows), Len(dbRows')) + 1))
                                           /\ streamIdx' = streamIdx + 1
                                           /\ UNCHANGED pc
    /\ UNCHANGED << running, conn, autocommit, channel_tables, channel_poll_counter,
                    scanVars, storeVars, MAX_HISTORY_POINTS, active_streams, passes,
                    ghostVars, titles >>
    /\ UNCHANGED fetchVars

\* dict.setdefault
SetDefault(d, k, v) == IF k \in DOMAIN d THEN d ELSE Put(d, k, v)

\* Lines 490-494, for one stream that is not live.
GiveDefaults ==
    /\ pc = "stream"
    /\ streamIdx <= Len(active_streams)
    /\ ~IsLive(known_streams[active_streams[streamIdx]])
    /\ LET video_id == active_streams[streamIdx]
       IN  /\ known_streams' = [known_streams EXCEPT ![video_id] =
                 SetDefault(SetDefault(SetDefault(@, "concurrent_viewers", 0),
                                       "like_count", 0), "comment_count", 0)]
           /\ ps' = [ps EXCEPT !.defaults = @ \cup {video_id}]
    /\ streamIdx' = streamIdx + 1
    /\ UNCHANGED << procVars, connVars, channel_tables, channel_poll_counter, scanVars,
                    storeVars, MAX_HISTORY_POINTS, history, active_streams, csvExists,
                    csvLines, dbRows, passes, arrived, sampleLog, ghostVars, envVars >>
    /\ UNCHANGED fetchVars

\* Lines 496-506: the summary table, the charts, time.sleep(STREAM_POLL_SEC).
EndPass ==
    /\ pc = "stream"
    /\ streamIdx > Len(active_streams)
    /\ pc' = "analytics"
    /\ UNCHANGED << running, connVars, loopVars, scanVars, storeVars, sampleVars,
                    ghostVars, envVars >>
    /\ UNCHANGED fetchVars

\* The stream dict as find_live_videos builds it (280-286).
FreshStream(stream) ==
    StreamDict(stream.video_id, stream.channel_id, stream.channel_name,
               stream.stream_status)

\* After an exception left run(), the process is started again and its first
\* scan returns the streams it returned before: module state is rebuilt
\* (line 58), the connection is a new one, the database and the log file are
\* what the last run left.
RestartAnalytics ==
    /\ pc = "crashed"
    /\ runs < MaxRuns
    /\ runs' = runs + 1
    /\ pc' = "analytics"
    /\ connTx' = "idle"
    /\ known_streams' = [v \in DOMAIN known_streams |-> FreshStream(known_streams[v])]
    /\ history' = EmptyDict
    /\ arrived' = EmptyDict
    /\ streamIdx' = 1
    /\ ps' = PassStart
    /\ UNCHANGED << running, conn, autocommit, channel_tables, channel_poll_counter,
                    scanVars, storeVars, MAX_HISTORY_POINTS, active_streams, csvExists,
                    csvLines, dbRows, passes, sampleLog, ticks, tk, initCalls, envVars >>
    /\ UNCHANGED fetchVars

NextAnalytics ==
    \/ BeginPass
    \/ CollectAndStore
    \/ GiveDefaults
    \/ EndPass
    \/ RestartAnalytics

AnalyticsSpec == InitAnalytics /\ [][NextAnalytics]_vars

(* ------------- lines 485-506 with discovery scans between ------------- *)
\* Lines 447-477 of the tick bodies up to and including the next discovery
\* tick that runs to its end, without a connection (455): find_live_videos
\* returns each video at most once, the registry is replaced by what was
\* found (475) and the next pass lists it (485).  history is not assigned.
Rescan ==
    /\ pc = "analytics"
    /\ conn = "none"
    /\ ticks < MaxTicks
    /\ ticks' = ticks + 1
    /\ \E r \in Registries :
         LET found == [v \in {x.video_id : x \in r} |-> CHOOSE x \in r : x.video_id = v]
         IN  /\ discovered' = found
             /\ known_streams' = ReplaceRegistry(known_streams, found)
             /\ active_streams' = OrderOf(DOMAIN found)
             /\ tk' = [TickStart EXCEPT
                         !.discovery = TRUE,
                         !.done      = TRUE,
                         !.old       = DOMAIN known_streams,
                         !.returned  = DOMAIN found,
                         !.newEvents = [v \in VideoIds |->
                                          IF v \in DOMAIN found /\ IsNewStream(known_streams, v)
                                          THEN 1 ELSE 0],
                         !.ended     = EndedEvents(known_streams, found)]
    /\ UNCHANGED << procVars, connVars, channel_tables, channel_poll_counter, chIdx,
                    results, feedLeft, itemIdx, storeVars, MAX_HISTORY_POINTS, history,
                    streamIdx, csvExists, csvLines, dbRows, passes, ps, arrived, sampleLog,
                    runs, initCalls, envVars >>
    /\ UNCHANGED fetchVars

\* Entry to line 485 without a connection, the window at its largest capacity.
InitWindow == InitAnalytics /\ conn = "none" /\ MAX_HISTORY_POINTS = MaxCapacity

NextWindow ==
    \/ BeginPass
    \/ CollectAndStore
    \/ GiveDefaults
    \/ EndPass
    \/ Rescan

WindowSpec == InitWindow /\ [][NextWindow]_vars

(* ============================== claims =============================== *)
\* A tick body is over when control is at line 483; tk.done tells that it ran
\* to its end, tk.raised that it went through the except clause.
Count(list, x) == Cardinality({ i \in 1..Len(list) : list[i] = x })
HistoryOf(v) == IF v \in DOMAIN history THEN history[v] ELSE <<>>
ArrivedOf(v) == IF v \in DOMAIN arrived THEN arrived[v] ELSE <<>>
LastN(list, n) == SubSeq(list, Len(list) - n + 1, Len(list))
CsvRowsOf(v) ==
    Cardinality({ i \in 1..Len(csvLines) :
                    csvLines[i].kind = "row" /\ csvLines[i].cols["video_id"] = <<v>> })
DbRowsOf(v) ==
    Cardinality({ i \in 1..Len(dbRows) : dbRows[i].cols["video_id"] = <<v>> })
CsvHas(e) ==
    \E i \in 1..Len(csvLines) :
        /\ csvLines[i].kind = "row"
        /\ csvLines[i].cols["video_id"] = <<e.video_id>>
        /\ csvLines[i].cols["collected_at"] = <<e.collected_at>>
DbHas(e) ==
    \E i \in 1..Len(dbRows) :
        /\ dbRows[i].cols["video_id"] = <<e.video_id>>
        /\ dbRows[i].cols["collected_at"] = <<e.collected_at>>
LiveTracked == { v \in DOMAIN known_streams : known_streams[v].stream_status = "live" }

\* C1 (amended): after a discovery tick whose scan ran to its end without an
\* exception, the video_ids of the registry are exactly the video_ids that
\* find_live_videos returned in that tick.
C1_RegistryEqualsCompletedScan ==
    (pc = "cont" /\ tk.discovery /\ tk.done) => DOMAIN known_streams = tk.returned

\* C1 as stated: the same after every discovery tick, also one cut short by
\* an exception.
C1_RegistryEqualsEveryScan ==
    (pc = "cont" /\ tk.discovery) => DOMAIN known_streams = tk.returned

\* A completed discovery tick that dropped a tracked stream and met a new one.
C1_Witness ==
    /\ pc = "cont" /\ tk.discovery /\ tk.done
    /\ tk.ended # {}
    /\ \E v \in VideoIds : tk.newEvents[v] > 0 /\ v \in DOMAIN known_streams

\* C2: at the end of every tick, collect_and_store has been called exactly
\* once in that tick for every stream of the registry whose status is live.
C2_LiveStreamsCollectedEveryTick ==
    (pc = "cont" /\ tk.done) => \A v \in LiveTracked : Count(ps.collected, v) = 1

\* C3: at the end of a tick that tracked a live stream whose metrics call did
\* not fail, the stream has a sample: at least one flat-log row and a window
\* of at least one sample, and exactly one of each (and one table row, with a
\* connection) when it is its first sample.
C3_FirstTickGivesOneSample ==
    (pc = "cont" /\ tk.done) =>
        \A v \in LiveTracked \ ps.fetchFail :
            /\ Len(HistoryOf(v)) >= 1
            /\ CsvRowsOf(v) >= 1
            /\ Len(ArrivedOf(v)) = 1 =>
                 /\ Len(HistoryOf(v)) = 1
                 /\ CsvRowsOf(v) = 1
                 /\ conn = "open" => DbRowsOf(v) = 1

\* C4: the window of every video holds at most MAX_HISTORY_POINTS samples.
C4_WindowWithinCapacity ==
    \A v \in DOMAIN history : Len(history[v]) <= MAX_HISTORY_POINTS

\* More samples of one video have arrived than the window can hold, and its
\* metrics call has just failed.
C4_Witness ==
    \E v \in DOMAIN history :
        /\ Len(ArrivedOf(v)) > MAX_HISTORY_POINTS
        /\ v \in ps.fetchFail

\* C5: the window of a video is the last min(n, N) of its n samples, in
\* arrival order.
C5_WindowIsLastSamples ==
    \A v \in DOMAIN history :
        history[v] = LastN(ArrivedOf(v), Min(Len(ArrivedOf(v)), MAX_HISTORY_POINTS))

\* Capacity 2, three samples: the window is the second and the third.
C5_Witness ==
    \E v \in DOMAIN history :
        /\ MAX_HISTORY_POINTS = 2
        /\ Len(ArrivedOf(v)) = 3
        /\ history[v] = << arrived[v][2], arrived[v][3] >>

\* C6 (amended): in one process run, the calls of init_channel_table for a
\* channel_id that returned are one when the channel is in channel_tables and
\* none otherwise; only a call that raised is followed by another call.
C6_ProvisionedOncePerChannel ==
    \A ch \in Channels :
        initCalls[ch].calls - initCalls[ch].raised
            = IF ch \in DOMAIN channel_tables THEN 1 ELSE 0

\* C6 as stated: init_channel_table is invoked at most once per channel_id.
C6_InvokedOncePerChannel ==
    \A ch \in Channels : initCalls[ch].calls <= 1

\* The last channel was provisioned at the second call, in a scan that
\* returned two streams of it.
C6_Witness ==
    /\ pc = "cont" /\ tk.done /\ tk.discovery
    /\ Len(results) = 2
    /\ initCalls[CHANNEL_IDS[Len(CHANNEL_IDS)]] = [calls |-> 2, raised |-> 1]

\* C7: no step changes the table_name or added_at of a stored channels row,
\* removes the row or adds a second row for its channel_id; no step drops a
\* table or an index; and init_channel_table is never rejected because a row,
\* a table or an index exists already.
C7_ProvisioningIdempotent ==
    [][ /\ \A r \in dbChannels :
             \E r2 \in dbChannels' :
                 /\ r2.channel_id = r.channel_id
                 /\ r2.table_name = r.table_name
                 /\ r2.added_at = r.added_at
                 /\ \A r3 \in dbChannels' : r3.channel_id = r.channel_id => r3 = r2
        /\ dbTables \subseteq dbTables'
        /\ dbIndexes \subseteq dbIndexes'
        /\ tk'.initErr # "conflict" ]_vars

\* A second call for a channel_id met its row and changed the channel_name:
\* the row's table_name is no longer the table of its name.
C7_Witness ==
    \E r \in dbChannels : r.table_name # get_table_name(r.channel_name)

\* C8: for every sample whose INSERT failed, the flat-log row is written,
\* save_to_db was called once, no table row exists, and collect_and_store
\* went on to the downstream notifier.
C8_InsertFailureSwallowed ==
    \A i \in 1..Len(sampleLog) :
        sampleLog[i].insert = "failed" =>
            /\ sampleLog[i].csv = "written"
            /\ CsvHas(sampleLog[i])
            /\ ~DbHas(sampleLog[i])
            /\ sampleLog[i].attempts = 1
            /\ sampleLog[i].notifiedCsv > 0

\* After a failed INSERT, another live stream was sampled in the same pass.
C8_Witness ==
    \E i \in 1..Len(sampleLog), j \in 1..Len(sampleLog) :
        /\ i < j
        /\ sampleLog[i].insert = "failed"
        /\ sampleLog[j].pass = sampleLog[i].pass
        /\ sampleLog[j].video_id # sampleLog[i].video_id

\* C9: no exception raised in the tick body ends the process.
C9_NoTickExceptionEndsProcess == pc # "crashed"

\* C10: find_live_videos never raises, and a discovery tick in which the
\* store did not fail has scanned every configured channel.
C10_ApiErrorsNeverAbortScan ==
    /\ ~tk.findRaised
    /\ (pc = "cont" /\ tk.discovery /\ tk.initErr = "none")
           => chIdx = Len(CHANNEL_IDS) + 1

\* C11: a collect_and_store call whose metrics call failed does not raise and
\* leaves the video's window, the flat log, the table rows and the registry
\* entry as they were, and does not reach the downstream notifier (no entry
\* of sampleLog, which records every notifier call).
C11_FailedFetchLeavesNoTrace ==
    [][ ( /\ Len(ps'.collected) = Len(ps.collected) + 1
          /\ ps'.collected[Len(ps'.collected)] \in ps'.fetchFail )
        => ( /\ pc' # "crashed"
             /\ UNCHANGED << history, csvExists, csvLines, dbRows, known_streams,
                             sampleLog >> ) ]_vars

\* C12: channel_poll_counter stays in 0..k-1 for k = max(1, POLL_INTERVAL_SEC
\* // STREAM_POLL_SEC); it is 0 at the start of a tick body exactly when the
\* tick is the first of the run (or the first after an exception) or the k-th
\* since the last discovery tick; a tick scans exactly when the counter was 0,
\* and a tick that does not scan calls find_live_videos for no channel.
C12_ScanEveryKthTick ==
    /\ channel_poll_counter \in 0..(PollsPerScan - 1)
    /\ pc = "try" => (channel_poll_counter = 0 <=> tk.sinceScan \in {0, PollsPerScan})
    /\ pc \in {"channel", "feed", "items", "finish", "except"} => tk.discovery
    /\ pc = "cont" => (tk.discovery <=> tk.sinceScan \in {0, PollsPerScan})
    /\ ~tk.discovery => (tk.returned = {} /\ ~tk.findRaised)

\* A discovery tick ended that began k ticks after the one before, with one
\* tick without a scan in between.
C12_Witness ==
    /\ pc = "cont" /\ tk.discovery /\ tk.done
    /\ tk.sinceScan = PollsPerScan
    /\ PollsPerScan > 1

\* C13: when a tick body is over and control goes back to the loop condition,
\* the tick has slept STREAM_POLL_SEC exactly once, on the path without an
\* exception as on the path through the except clause.
C13_OneSleepPerTick ==
    pc = "cont" => tk.slept = 1

\* C14 (amended): after a discovery tick whose scan ran to its end without an
\* exception, the "Stream ended" events are exactly the video_ids of the old
\* registry that find_live_videos did not return in this tick; when it
\* returned nothing, the registry is empty and every stream of the old
\* registry was reported ended in this tick.
C14_EndedAfterCompletedScan ==
    (pc = "cont" /\ tk.discovery /\ tk.done) =>
        /\ tk.ended = tk.old \ tk.returned
        /\ tk.returned = {} => (DOMAIN known_streams = {} /\ tk.ended = tk.old)

\* C14 as stated: the same on every discovery tick, also one cut short by an
\* exception.
C14_EndedAfterEveryScan ==
    (pc = "cont" /\ tk.discovery) =>
        /\ tk.ended = tk.old \ tk.returned
        /\ tk.returned = {} => (DOMAIN known_streams = {} /\ tk.ended = tk.old)

\* A scan that returned nothing while a stream was tracked: the registry is
\* empty and the stream was reported ended.
C14_Witness ==
    /\ pc = "cont" /\ tk.discovery /\ tk.done
    /\ tk.returned = {}
    /\ tk.old # {}
    /\ tk.ended = tk.old
    /\ DOMAIN known_streams = {}

\* C15 (amended): after a discovery tick whose scan ran to its end without an
\* exception, a "New stream" event was emitted for a video_id exactly when
\* find_live_videos returned it in this tick and the old registry did not hold
\* it; with a connection, the channel of every stream of the registry has a
\* table that exists.
C15_NewAfterCompletedScan ==
    (pc = "cont" /\ tk.discovery /\ tk.done) =>
        /\ \A v \in VideoIds : tk.newEvents[v] > 0 <=> v \in tk.returned \ tk.old
        /\ DOMAIN known_streams = tk.returned
        /\ conn = "open" =>
             \A v \in DOMAIN known_streams :
                 /\ known_streams[v].channel_id \in DOMAIN channel_tables
                 /\ channel_tables[known_streams[v].channel_id] \in dbTables

\* C15 as stated: the same on every discovery tick, also one cut short by an
\* exception.
C15_NewAfterEveryScan ==
    (pc = "cont" /\ tk.discovery) =>
        /\ \A v \in VideoIds : tk.newEvents[v] > 0 <=> v \in tk.returned \ tk.old
        /\ DOMAIN known_streams = tk.returned
        /\ conn = "open" =>
             \A v \in DOMAIN known_streams :
                 /\ known_streams[v].channel_id \in DOMAIN channel_tables
                 /\ channel_tables[known_streams[v].channel_id] \in dbTables

\* With a connection, live video A is discovered for the first time: one
\* event, the registry is {A}, the table of its channel exists.
C15_Witness ==
    /\ pc = "cont" /\ tk.discovery /\ tk.done
    /\ conn = "open"
    /\ tk.old = {}
    /\ tk.returned = {"A"}
    /\ tk.newEvents["A"] = 1
    /\ DOMAIN known_streams = {"A"}
    /\ known_streams["A"].stream_status = "live"
    /\ channel_tables[known_streams["A"].channel_id] \in dbTables

\* C16: a run that obtained no connection goes on into the loop and never
\* obtains one later; every step that leaves the process without a connection
\* leaves the stored tables, rows and indexes as they were, with
\* init_channel_table never called in this run, save_to_db never called, and
\* every sample whose flat-log write did not raise present in the flat log.
C16_NoConnectionNoStoreAccess ==
    [][ /\ (conn = "none" /\ pc # "start") => conn' = "none"
        /\ pc' = "crashed_start" => conn' = "open"
        /\ conn' = "none" =>
             /\ UNCHANGED << dbChannels, dbTables, dbIndexes, dbRows >>
             /\ \A ch \in Channels : initCalls'[ch].calls = 0
             /\ channel_tables' = EmptyDict
             /\ ( \A i \in 1..Len(sampleLog) :
                    /\ sampleLog[i].attempts = 0
                    /\ sampleLog[i].insert = "none"
                    /\ sampleLog[i].csv = "written" => CsvHas(sampleLog[i]) )' ]_vars

\* Without a connection a scan that returned streams ran to its end, in a
\* second run against a database that a first run had provisioned.
C16_Witness ==
    /\ conn = "none"
    /\ pc = "cont" /\ tk.discovery /\ tk.done
    /\ tk.returned # {}
    /\ dbChannels # {}
    /\ \A ch \in Channels : initCalls[ch].calls = 0

\* C17: a signal changes nothing but the flag; a tick body starts only when
\* the flag is up, and the loop is left only from the loop condition with the
\* flag down, so a tick in progress is never abandoned: a discovery tick that
\* ended without an exception after the signal has scanned every channel; the
\* connection is closed only when the loop is left, an open connection is
\* closed then, and while it is closed no table, row, index or flat-log line
\* changes.
C17_CooperativeShutdown ==
    [][ /\ (running /\ ~running') =>
              UNCHANGED << pc, connVars, loopVars, scanVars, storeVars, sampleVars,
                           ghostVars, envVars >>
        /\ ticks' # ticks => (running /\ pc = "head" /\ pc' = "try")
        /\ (pc = "head" /\ ~running) => pc' \in {"head", "stopped"}
        /\ (pc # "stopped" /\ pc' = "stopped") => (pc = "head" /\ ~running)
        /\ (~running /\ pc = "cont" /\ tk.discovery /\ tk.done)
              => chIdx = Len(CHANNEL_IDS) + 1
        /\ (conn # "closed" /\ conn' = "closed") => (conn = "open" /\ pc' = "stopped")
        /\ (conn = "open" /\ pc' = "stopped") => conn' = "closed"
        /\ conn = "closed" =>
              /\ pc = "stopped"
              /\ UNCHANGED << storeVars, dbRows, csvLines, csvExists >> ]_vars

\* After a signal the process has left the loop and closed its connection;
\* the one tick body it started ran to its end, with the tables of both
\* channels provisioned and the registry replaced.
C17_Witness ==
    /\ pc = "stopped"
    /\ conn = "closed"
    /\ ~running
    /\ runs = 1
    /\ ticks = 1
    /\ DOMAIN known_streams # {}
    /\ DOMAIN channel_tables = Channels

\* C18: once the flag is down with the process anywhere in the loop (the
\* except clause included), the process reaches the end of run() with no
\* connection left open.
C18_SignalLeadsToStop ==
    (~running /\ pc \in {"head", "try", "channel", "feed", "items", "finish",
                         "except", "cont"})
        ~> (pc = "stopped" /\ conn # "open")

\* A run that went through the except clause has stopped with its connection
\* closed.
C18_Witness ==
    /\ pc = "stopped"
    /\ ~running
    /\ conn = "closed"
    /\ \E ch \in Channels : initCalls[ch].raised > 0

\* C19: a flat log that holds a line begins with the header line, and every
\* other line of it is a data row.
C19_HeaderOnceFirst ==
    csvLines # <<>> =>
        /\ csvLines[1] = HeaderLine
        /\ \A i \in 2..Len(csvLines) : csvLines[i].kind = "row"

\* C20: every data row of the flat log and every table row has a value in
\* each of the eleven columns; a table row is, column for column, a row of
\* the flat log; and the row of a sample of this run carries that sample's
\* three counts together with the registry entry's channel, title and status.
C20_RowsAreComplete ==
    /\ \A i \in 1..Len(csvLines) :
         csvLines[i].kind = "row" =>
             /\ DOMAIN csvLines[i].cols = FieldSet
             /\ \A k \in FieldSet : csvLines[i].cols[k] # <<>>
    /\ \A i \in 1..Len(dbRows) :
         /\ DOMAIN dbRows[i].cols = FieldSet
         /\ \A k \in FieldSet : dbRows[i].cols[k] # <<>>
         /\ \E j \in 1..Len(csvLines) :
              csvLines[j].kind = "row" /\ csvLines[j].cols = dbRows[i].cols
    /\ \A v \in DOMAIN arrived :
         \A n \in 1..Len(arrived[v]) :
             \A i \in 1..Len(csvLines) :
                 ( /\ csvLines[i].kind = "row"
                   /\ csvLines[i].cols["video_id"] = <<v>>
                   /\ csvLines[i].cols["collected_at"] = <<arrived[v][n][1]>> )
                 => /\ csvLines[i].cols["concurrent_viewers"] = <<arrived[v][n][2]>>
                    /\ csvLines[i].cols["like_count"] = <<arrived[v][n][3]>>
                    /\ csvLines[i].cols["comment_count"] = <<arrived[v][n][4]>>
                    /\ csvLines[i].cols["channel_id"] = <<known_streams[v].channel_id>>
                    /\ csvLines[i].cols["channel_name"] = <<known_streams[v].channel_name>>
                    /\ csvLines[i].cols["video_title"] = <<known_streams[v].video_title>>
                    /\ csvLines[i].cols["stream_status"] = <<known_streams[v].stream_status>>

\* A sample whose response had no concurrentViewers and no actualStartTime
\* was written to both sinks, with 0 and None in those columns.
C20_Witness ==
    \E i \in 1..Len(dbRows), j \in 1..Len(csvLines) :
        /\ csvLines[j].kind = "row"
        /\ csvLines[j].cols = dbRows[i].cols
        /\ dbRows[i].cols["concurrent_viewers"] = <<0>>
        /\ dbRows[i].cols["actual_start"] = <<"None">>

\* C21: whenever the downstream notifier was called for a sample, the
\* flat-log row of that sample was among the lines it found written, the
\* INSERT had been tried once when there is a connection, and a committed
\* table row of that sample was among the rows it found.
C21_NotifierAfterBothWrites ==
    \A i \in 1..Len(sampleLog) :
        LET e == sampleLog[i]
        IN  /\ e.notifiedCsv = 0 <=> e.notifiedDb = 0
            /\ e.notifiedCsv > 0 =>
                 /\ e.csv = "written"
                 /\ e.notifiedCsv <= Len(csvLines)
                 /\ \E j \in 1..e.notifiedCsv :
                      /\ csvLines[j].kind = "row"
                      /\ csvLines[j].cols["video_id"] = <<e.video_id>>
                      /\ csvLines[j].cols["collected_at"] = <<e.collected_at>>
                 /\ conn = "open" => (e.attempts = 1 /\ e.insert \in {"committed", "failed"})
                 /\ conn # "open" => (e.attempts = 0 /\ e.insert = "none")
                 /\ e.insert = "committed" =>
                      \E j \in 1..(e.notifiedDb - 1) :
                          /\ dbRows[j].cols["video_id"] = <<e.video_id>>
                          /\ dbRows[j].cols["collected_at"] = <<e.collected_at>>

\* The notifier was called for the second sample that reached both sinks.
C21_Witness ==
    /\ Len(dbRows) = 2
    /\ \E i \in 1..Len(sampleLog) :
         /\ sampleLog[i].insert = "committed"
         /\ sampleLog[i].notifiedDb = 3
         /\ sampleLog[i].notifiedCsv = Len(csvLines)

\* C22: two distinct channel_ids that are provisioned have distinct table
\* names.
C22_TableNamesUnique ==
    \A c \in DOMAIN channel_tables, d \in DOMAIN channel_tables :
        c # d => channel_tables[c] # channel_tables[d]

\* C23: for every sample, a failed INSERT has not kept the flat-log write
\* from being made, and with a connection a flat-log write that raised has
\* not kept save_to_db from being called.
C23_SinkWritesIndependent ==
    \A i \in 1..Len(sampleLog) :
        /\ sampleLog[i].insert = "failed" => sampleLog[i].csv = "written"
        /\ (sampleLog[i].csv = "raised" /\ conn = "open") => sampleLog[i].attempts = 1

\* C24: a stream of the registry whose status is not live has never been
\* passed to collect_and_store, has no window, no sample, no flat-log row
\* and no table row; once a pass has visited it, its three counts are 0.
C24_UpcomingNeverSampled ==
    \A v \in DOMAIN known_streams :
        known_streams[v].stream_status # "live" =>
            /\ Count(ps.collected, v) = 0
            /\ v \notin DOMAIN history
            /\ v \notin DOMAIN arrived
            /\ CsvRowsOf(v) = 0
            /\ DbRowsOf(v) = 0
            /\ \A i \in 1..Len(sampleLog) : sampleLog[i].video_id # v
            /\ v \in ps.defaults =>
                 /\ known_streams[v].concurrent_viewers = 0
                 /\ known_streams[v].like_count = 0
                 /\ known_streams[v].comment_count = 0
                 /\ "collected_at" \notin DOMAIN known_streams[v]

\* In a third pass an upcoming stream was given its defaults while a live
\* stream of the same registry has rows in both sinks.
C24_Witness ==
    /\ passes = 3
    /\ \E v \in DOMAIN known_streams, w \in DOMAIN known_streams :
         /\ known_streams[v].stream_status = "upcoming"
         /\ v \in ps.defaults
         /\ known_streams[w].stream_status = "live"
         /\ CsvRowsOf(w) > 0
         /\ DbRowsOf(w) > 0

\* C25: the counts of every tuple of a window are the counts of a response
\* (120, 10, 2 or, for absent and empty fields, 0, 0, 0); a flat-log row or a
\* table row of the same video with the tuple's collected_at carries the same
\* three counts; and when the sample's flat-log write or INSERT went through,
\* that row exists.
C25_WindowMatchesRows ==
    \A v \in DOMAIN history :
        \A n \in 1..Len(history[v]) :
            LET h == history[v][n]
            IN  /\ << h[2], h[3], h[4] >> \in { <<120, 10, 2>>, <<0, 0, 0>> }
                /\ \A i \in 1..Len(csvLines) :
                     ( /\ csvLines[i].kind = "row"
                       /\ csvLines[i].cols["video_id"] = <<v>>
                       /\ csvLines[i].cols["collected_at"] = <<h[1]>> )
                     => /\ csvLines[i].cols["concurrent_viewers"] = <<h[2]>>
                        /\ csvLines[i].cols["like_count"] = <<h[3]>>
                        /\ csvLines[i].cols["comment_count"] = <<h[4]>>
                /\ \A i \in 1..Len(dbRows) :
                     ( /\ dbRows[i].cols["video_id"] = <<v>>
                       /\ dbRows[i].cols["collected_at"] = <<h[1]>> )
                     => /\ dbRows[i].cols["concurrent_viewers"] = <<h[2]>>
                        /\ dbRows[i].cols["like_count"] = <<h[3]>>
                        /\ dbRows[i].cols["comment_count"] = <<h[4]>>
                /\ \A i \in 1..Len(sampleLog) :
                     (sampleLog[i].video_id = v /\ sampleLog[i].collected_at = h[1]) =>
                         /\ sampleLog[i].csv = "written" => CsvHas(sampleLog[i])
                         /\ sampleLog[i].insert = "committed" => DbHas(sampleLog[i])

\* A first sample of 120 viewers, 10 likes and 2 comments: the window is
\* [(t, 120, 10, 2)] and both sinks hold a row with t and those counts.
C25_Witness ==
    \E v \in DOMAIN history :
        /\ Len(history[v]) = 1
        /\ << history[v][1][2], history[v][1][3], history[v][1][4] >> = <<120, 10, 2>>
        /\ \E i \in 1..Len(csvLines), j \in 1..Len(dbRows) :
             /\ csvLines[i].kind = "row"
             /\ csvLines[i].cols["video_id"] = <<v>>
             /\ csvLines[i].cols["collected_at"] = << history[v][1][1] >>
             /\ csvLines[i].cols["concurrent_viewers"] = <<120>>
             /\ dbRows[j].cols = csvLines[i].cols

\* C26: every entry of the registry is stored under its own video_id, so
\* there is one entry per video_id however often a scan returned it; and the
\* set of tracked video_ids changes only in the step that ends the scan of a
\* discovery tick (or when a new process run begins with an empty registry).
C26_OneEntryPerVideo ==
    [][ /\ \A v \in DOMAIN known_streams' : known_streams'[v].video_id = v
        /\ \A v \in DOMAIN discovered' : discovered'[v].video_id = v
        /\ DOMAIN known_streams' # DOMAIN known_streams =>
              \/ pc = "finish" /\ tk.discovery /\ DOMAIN known_streams' = tk.returned
              \/ pc' = "start" /\ DOMAIN known_streams' = {} ]_vars

\* One scan returned the same video twice for a channel and once more for the
\* other channel; the registry holds it once.
C26_Witness ==
    /\ pc = "cont" /\ tk.discovery /\ tk.done
    /\ Len(results) = 2
    /\ results[1].video_id = results[2].video_id
    /\ tk.newEvents[results[1].video_id] = 3
    /\ DOMAIN known_streams = {results[1].video_id}

\* C27: when the API answered with an item, get_video_analytics returns a
\* dict (never None) in which each of the three counts is 0 for an absent or
\* empty field, 0 for "0", 120 for "120" and 7 for "07".
C27_CountsDefaultToZero ==
    (pc = "fetched" /\ resp.outcome = "ok" /\ resp.items # <<>>) =>
        LET item == resp.items[1]
            want(f) == IF ~f.present \/ f.digits = <<>> THEN 0
                       ELSE IF f.digits = <<1, 2, 0>> THEN 120
                       ELSE IF f.digits = <<0, 7>> THEN 7
                       ELSE 0
        IN  /\ fetched.kind = "dict"
            /\ fetched.value.concurrent_viewers = want(item.concurrentViewers)
            /\ fetched.value.like_count = want(item.likeCount)
            /\ fetched.value.comment_count = want(item.commentCount)

\* A response without concurrentViewers, with an empty likeCount and with
\* commentCount "07" gave 0, 0 and 7.
C27_Witness ==
    /\ pc = "fetched"
    /\ resp.outcome = "ok" /\ resp.items # <<>>
    /\ resp.items[1].concurrentViewers = Absent
    /\ resp.items[1].likeCount = Digits(<<>>)
    /\ resp.items[1].commentCount = Digits(<<0, 7>>)
    /\ fetched.kind = "dict"
    /\ fetched.value.concurrent_viewers = 0
    /\ fetched.value.like_count = 0
    /\ fetched.value.comment_count = 7

\* C28: no step of a scan but the one that ends it changes the registry;
\* when an exception has reached the except clause, the counter is 0 and
\* stays 0, the registry is the one the tick began with and no "Stream
\* ended" event was emitted; the next tick body is a discovery tick, and it
\* begins its scan with an empty result.
C28_FailedScanKeepsSnapshot ==
    [][ /\ pc \in {"try", "channel", "feed", "items", "except", "cont"}
              => known_streams' = known_streams
        /\ (tk.raised /\ pc \in {"except", "cont"}) =>
              /\ channel_poll_counter = 0
              /\ channel_poll_counter' = 0
              /\ DOMAIN known_streams = tk.old
              /\ tk.ended = {}
              /\ pc' = "head" => tk'.sinceScan = 0
        /\ (pc = "try" /\ tk.sinceScan = 0 /\ pc' # "try") =>
              (pc' = "channel" /\ tk'.discovery /\ discovered' = EmptyDict) ]_vars

\* An exception ended a scan after the first channel had been scanned and a
\* stream been found that the registry, which is not empty, does not hold.
C28_Witness ==
    /\ pc = "cont" /\ tk.raised
    /\ chIdx = 2
    /\ DOMAIN known_streams # {}
    /\ DOMAIN discovered # {}
    /\ DOMAIN discovered \cap DOMAIN known_streams = {}

\* C29: every table row has a flat-log row with the same video_id and
\* collected_at, and the table rows are no more than the flat-log rows.
C29_TableRowsInFlatLog ==
    /\ \A i \in 1..Len(dbRows) :
         \E j \in 1..Len(csvLines) :
             /\ csvLines[j].kind = "row"
             /\ csvLines[j].cols["video_id"] = dbRows[i].cols["video_id"]
             /\ csvLines[j].cols["collected_at"] = dbRows[i].cols["collected_at"]
    /\ Len(dbRows) <= Cardinality({ j \in 1..Len(csvLines) : csvLines[j].kind = "row" })

\* The sinks have diverged: three flat-log rows, two table rows.
C29_Witness ==
    /\ Len(dbRows) = 2
    /\ Cardinality({ j \in 1..Len(csvLines) : csvLines[j].kind = "row" }) = 3

\* C30: with a connection, the channel_id of every stream of the registry is
\* a key of channel_tables, so channel_tables.get gives a table name, never
\* None, and that table exists.
C30_TrackedChannelsHaveTables ==
    conn = "open" =>
        \A v \in DOMAIN known_streams :
            /\ known_streams[v].channel_id \in DOMAIN channel_tables
            /\ TableFor(channel_tables, known_streams[v].channel_id) # <<"None">>
            /\ TableFor(channel_tables, known_streams[v].channel_id) \in dbTables

\* In a second process run with a connection, the registry holds a stream of
\* each channel.
C30_Witness ==
    /\ conn = "open"
    /\ runs = 2
    /\ { known_streams[v].channel_id : v \in DOMAIN known_streams } = Channels
    /\ DOMAIN channel_tables = Channels

\* C31: a failed INSERT leaves the connection usable: no state has the
\* connection inside a failed transaction, in which every later INSERT is
\* refused whatever the store would have answered.
C31_FailedInsertLeavesConnectionUsable ==
    conn = "open" => connTx = "idle"

\* C32: every channel that has a table in channel_tables, the table its
\* samples are inserted into (421-422), has a row in table channels, and the
\* table_name of that row, which the dashboard generator reads, is that
\* table.
C32_RegistryNamesSampleTable ==
    \A c \in DOMAIN channel_tables :
        /\ \E r \in dbChannels : r.channel_id = c
        /\ \A r \in dbChannels : r.channel_id = c => r.table_name = channel_tables[c]

\* C33: every row of the flat log and every table row has stream_status
\* "live", and the stream_status of every stream of the registry is the one
\* the discovery scan gave it: no pass over lines 485-494 changes it.
C33_OnlyLiveRows ==
    /\ \A i \in 1..Len(csvLines) :
         csvLines[i].kind = "row" => csvLines[i].cols["stream_status"] = <<"live">>
    /\ \A i \in 1..Len(dbRows) : dbRows[i].cols["stream_status"] = <<"live">>
    /\ \A v \in DOMAIN known_streams :
         /\ v \in DOMAIN discovered
         /\ known_streams[v].stream_status = discovered[v].stream_status

\* A registry with a live and an upcoming stream after three passes and a
\* restart: the live stream has rows in both sinks and carries the fields of
\* its last sample, the upcoming one has its defaults.
C33_Witness ==
    /\ passes = 3
    /\ runs = 2
    /\ Len(dbRows) >= 2
    /\ \E v \in DOMAIN known_streams, w \in DOMAIN known_streams :
         /\ known_streams[v].stream_status = "upcoming"
         /\ "like_count" \in DOMAIN known_streams[v]
         /\ known_streams[w].stream_status = "live"
         /\ "collected_at" \in DOMAIN known_streams[w]
         /\ CsvRowsOf(w) >= 2

\* C34: in one tick, at most one "new stream" event (460-471) is emitted for
\* a video_id, however often the scan returns that video_id.
C34_OneNewEventPerVideo ==
    \A v \in VideoIds : tk.newEvents[v] <= 1

\* C35: a step changes the window kept under a key of history only when it
\* is a successful sample of the video with that video_id, and then by
\* appending that sample and evicting at capacity; no window is removed.  A
\* discovery scan that drops or re-adds a video leaves every window as it
\* was, and a sample of one video leaves the windows of the others as they
\* were.
C35_WindowChangedOnlyBySample ==
    [][ /\ DOMAIN history \subseteq DOMAIN history'
        /\ \A k \in DOMAIN history' :
             (k \notin DOMAIN history \/ history'[k] # history[k]) =>
                 /\ pc = "stream"
                 /\ streamIdx <= Len(active_streams)
                 /\ k = active_streams[streamIdx]
                 /\ Len(ArrivedOf(k)') = Len(ArrivedOf(k)) + 1
                 /\ history'[k] = AppendWindow(HistoryOf(k),
                                               ArrivedOf(k)'[Len(ArrivedOf(k)')],
                                               MAX_HISTORY_POINTS)
      ]_vars

\* Video A was sampled, a scan dropped it, the second scan found an empty
\* registry and returned A alone, and A was sampled again: its window holds
\* the sample taken before it was dropped and the new one, while B, sampled
\* in between, has a window of its own.
C35_Witness ==
    /\ ticks = 3
    /\ tk.old = {}
    /\ tk.returned = {"A"}
    /\ MAX_HISTORY_POINTS = 2
    /\ "A" \in DOMAIN history
    /\ Len(history["A"]) = 2
    /\ history["A"] = ArrivedOf("A")
    /\ "B" \in DOMAIN history
    /\ Len(history["B"]) = 1
    /\ history["A"][1][1] < history["B"][1][1]
    /\ history["B"][1][1] < history["A"][2][1]

====
